---- MODULE Spec2Model ----
(***************************************************************************)
(* Game of Life, rust implementation: src/rust/src/world.rs (World, Cell)  *)
(* and the driver src/rust/src/play.rs.                                    *)
(*                                                                         *)
(* A World owns a HashMap<String, Cell> keyed by the text "x-y".  A cell   *)
(* holds its coordinates, its alive flag, a pending next_state and a       *)
(* cached list of references to its neighbours.  A reference to a cell is  *)
(* modelled by the key of that cell in the map.                            *)
(*                                                                         *)
(* u32 values are kept as naturals in the state; u32 arithmetic is done on *)
(* two 16-bit limbs <<hi, lo>> so that the full 32-bit width is kept (the  *)
(* model checker's integers are 32-bit signed).  `+` on u32 is modelled as *)
(* the wrapping addition of a build without overflow checks; with overflow *)
(* checks the very first `cell.x + (-1 as u32)` with x >= 1 aborts         *)
(* World::new, so no world with more than one column or row would exist.   *)
(*                                                                         *)
(* Option<T> is a sequence of length at most one: None is <<>>, Some(v)    *)
(* is <<v>>.                                                               *)
(***************************************************************************)
EXTENDS Integers, Sequences, FiniteSets

VARIABLES
  width,     \* World.width
  height,    \* World.height
  tick,      \* World.tick
  cells,     \* World.cells: key -> Cell
  call,      \* the call that returned last: "new", "_tick" or "render"
  result,    \* what that call returned: render()'s String, <<>> otherwise
  panicked,  \* an unwrap() of None has aborted the program
  pc,        \* position inside _tick: "ready" (not in it), "decide", "apply"
  todo,      \* keys the running loop of _tick has not visited yet
  pre,       \* history: the cell map when the last _tick was entered
  iteration  \* history: iterations of the loop of Play::run begun so far

vars ==
  <<width, height, tick, cells, call, result, panicked, pc, todo, pre,
    iteration>>

----------------------------------------------------------------------------
(* Bounds of the model *)

\* largest width and largest height of a randomly filled world
MaxSide == 4
\* largest number of cells of a randomly filled world
MaxCells == 9
\* largest number of cells of a world whose _tick is explored cell by cell
MaxStepCells == 6
\* largest side of a world that holds a placed pattern (block, blinker)
MaxPatternSide == 6
\* number of _tick calls explored
MaxTick == 3

----------------------------------------------------------------------------
(* Play: the size of the world the driver builds *)

World_Width == 150

World_Height == 40

----------------------------------------------------------------------------
(* Option<T> *)

None == <<>>

Some(v) == <<v>>

is_some(o) == Len(o) = 1

is_none(o) == Len(o) = 0

unwrap(o) == o[1]

----------------------------------------------------------------------------
(* Statements in sequence *)

\* the value of rest once the statement that produced v has completed: the
\* body of a loop finishes before the next iteration starts
Done(v, rest) == IF v = v THEN rest ELSE rest

----------------------------------------------------------------------------
(* u32 and u8 arithmetic *)

\* 2^16: a u32 is the pair <<hi, lo>> of its 16-bit halves
Half == 65536

\* 2^8: the range of alive_neighbours (u8)
U8 == 256

U32Of(n) == <<n \div Half, n % Half>>

U32Val(u) == u[1] * Half + u[2]

\* variant: the offset taken as an unsigned byte (`as u8 as u32`)
AsU32_ZeroExtend(i) == IF i < 0 THEN <<0, U8 + i>> ELSE <<0, i>>

\* `set[i] as u32` for an i8: sign extension to 32 bits
AsU32(i) == IF i < 0 THEN <<Half - 1, Half + i>> ELSE <<0, i>>

\* u32 `+` (wrapping)
AddU32(a, b) ==
  LET lo == a[2] + b[2]
      hi == a[1] + b[1] + (lo \div Half)
  IN  <<hi % Half, lo % Half>>

----------------------------------------------------------------------------
(* format!("{}-{}", x, y) *)

DigitChar == <<"0", "1", "2", "3", "4", "5", "6", "7", "8", "9">>

\* quotient and remainder of a u32 by ten
DivMod10(u) ==
  LET r == u[1] % 10
      t == r * Half + u[2]
  IN  [q |-> <<u[1] \div 10, t \div 10>>, r |-> t % 10]

RECURSIVE FormatU32(_)
\* "{}" of a u32: its decimal digits, most significant first, no padding
FormatU32(u) ==
  LET d == DivMod10(u)
  IN  IF d.q = <<0, 0>> THEN <<DigitChar[d.r + 1]>>
      ELSE FormatU32(d.q) \o <<DigitChar[d.r + 1]>>

\* the key of coordinate (x, y), both u32
Key(x, y) == FormatU32(x) \o <<"-">> \o FormatU32(y)

----------------------------------------------------------------------------
(* Cell *)

Cell_new(x, y, alive) ==
  [x |-> x, y |-> y, alive |-> alive, next_state |-> None, neighbours |-> None]

to_char(cell) == IF cell.alive THEN "o" ELSE " "

\* Cell::next_state_is on the cell stored under key
next_state_is(cs, key, value) == [cs EXCEPT ![key].next_state = value]

----------------------------------------------------------------------------
(* World: the cell map *)

cached_directions ==
  << <<-1, 1>>,  <<0, 1>>,  <<1, 1>>,
     <<-1, 0>>,             <<1, 0>>,
     <<-1, -1>>, <<0, -1>>, <<1, -1>> >>

\* Option<&Cell>: the reference is the key
cell_at(cs, x, y) ==
  LET key == Key(x, y)
  IN  IF key \in DOMAIN cs THEN Some(key) ELSE None

\* HashMap::insert of a new Cell; the returned reference is not used
add_cell(cs, x, y, alive) ==
  LET key == Key(U32Of(x), U32Of(y))
  IN  [k \in (DOMAIN cs) \cup {key} |->
         IF k = key THEN Cell_new(x, y, alive) ELSE cs[k]]

RECURSIVE PopulateFrom_Short(_, _, _, _, _)
\* variant: the loops stop one cell early
PopulateFrom_Short(cs, i, w, h, rnd) ==
  IF i >= w * h - 1 THEN cs
  ELSE LET x == i % w
           y == i \div w
           cs1 == add_cell(cs, x, y, rnd[<<x, y>>])
       IN  Done(cs1, PopulateFrom_Short(cs1, i + 1, w, h, rnd))

RECURSIVE PopulateFrom(_, _, _, _, _)
\* the two nested loops of populate_cells, i counting the iterations done;
\* rnd[<<x, y>>] is the outcome of the i-th draw `next_f32() <= 0.2`
PopulateFrom(cs, i, w, h, rnd) ==
  IF i >= w * h THEN cs
  ELSE LET x == i % w
           y == i \div w
           cs1 == add_cell(cs, x, y, rnd[<<x, y>>])
       IN  Done(cs1, PopulateFrom(cs1, i + 1, w, h, rnd))

populate_cells(w, h, rnd) == PopulateFrom(<<>>, 0, w, h, rnd)

RECURSIVE NeighbourScan(_, _, _, _)
\* the loop over cached_directions, from direction i on, pushing onto acc
NeighbourScan(cs, cell, i, acc) ==
  IF i > Len(cached_directions) THEN acc
  ELSE LET set == cached_directions[i]
           neighbour == cell_at(cs,
                                AddU32(U32Of(cell.x), AsU32(set[1])),
                                AddU32(U32Of(cell.y), AsU32(set[2])))
       IN  NeighbourScan(cs, cell, i + 1,
                         IF is_some(neighbour)
                         THEN Append(acc, unwrap(neighbour)) ELSE acc)

\* the map after neighbours_around(cell): the cache is filled when it is None
neighbours_around(cs, key) ==
  IF is_none(cs[key].neighbours)
  THEN [cs EXCEPT ![key].neighbours = Some(NeighbourScan(cs, cs[key], 1, <<>>))]
  ELSE cs

RECURSIVE CountAlive(_, _, _, _)
\* the counting loop of alive_neighbours_around, from index i on
CountAlive(cs, neighbours, i, n) ==
  IF i > Len(neighbours) THEN n
  ELSE CountAlive(cs, neighbours, i + 1,
                  IF cs[neighbours[i]].alive THEN (n + 1) % U8 ELSE n)

\* alive_neighbours_around(cell): the map (cache filled) and the count
alive_neighbours_around(cs, key) ==
  LET cs1 == neighbours_around(cs, key)
  IN  [cells |-> cs1,
       count |-> CountAlive(cs1, unwrap(cs1[key].neighbours), 1, 0)]

----------------------------------------------------------------------------
(* Iteration over the HashMap *)

Before(a, b) == a.y < b.y \/ (a.y = b.y /\ a.x <= b.x)

RECURSIVE RowMajor(_, _)
\* the keys in S, by row and then by column of their cells
RowMajor(cs, S) ==
  IF S = {} THEN <<>>
  ELSE LET m == CHOOSE k \in S : \A j \in S : Before(cs[k], cs[j])
       IN  <<m>> \o RowMajor(cs, S \ {m})

Reverse(s) == [i \in 1..Len(s) |-> s[Len(s) + 1 - i]]

\* orders in which `for (_key, cell) in self.cells` may visit the map when a
\* whole loop is taken in one step (every order is explored by the
\* cell-by-cell actions below)
IterOrders(cs) ==
  LET rm == RowMajor(cs, DOMAIN cs) IN {rm, Reverse(rm)}

----------------------------------------------------------------------------
(* World::new *)

RECURSIVE PrepopulateFrom(_, _, _)
PrepopulateFrom(cs, order, i) ==
  IF i > Len(order) THEN cs
  ELSE LET cs1 == neighbours_around(cs, order[i])
       IN  Done(cs1, PrepopulateFrom(cs1, order, i + 1))

prepopulate_neighbours(cs) ==
  PrepopulateFrom(cs, RowMajor(cs, DOMAIN cs), 1)

\* variant: the caches are not filled at construction
World_new_NoPrepopulate(w, h, rnd) ==
  [width |-> w, height |-> h, tick |-> 0,
   cells |-> populate_cells(w, h, rnd)]

World_new(w, h, rnd) ==
  [width |-> w, height |-> h, tick |-> 0,
   cells |-> prepopulate_neighbours(populate_cells(w, h, rnd))]

----------------------------------------------------------------------------
(* World::_tick *)

\* variant: a live cell with 2 alive neighbours dies (`<= 2`)
DecideCell_DiesAtTwo(cs, key) ==
  LET an == alive_neighbours_around(cs, key)
      alive_neighbours == an.count
  IN  IF ~an.cells[key].alive /\ alive_neighbours = 3
      THEN next_state_is(an.cells, key, Some(1))
      ELSE IF alive_neighbours <= 2 \/ alive_neighbours > 3
           THEN [an.cells EXCEPT ![key].next_state = Some(0)]
           ELSE an.cells

\* variant: a dead cell with up to 3 alive neighbours is born (`<= 3`)
DecideCell_BirthUpTo3(cs, key) ==
  LET an == alive_neighbours_around(cs, key)
      alive_neighbours == an.count
  IN  IF ~an.cells[key].alive /\ alive_neighbours <= 3
      THEN next_state_is(an.cells, key, Some(1))
      ELSE IF alive_neighbours < 2 \/ alive_neighbours > 3
           THEN [an.cells EXCEPT ![key].next_state = Some(0)]
           ELSE an.cells

\* variant: a cell with 3 alive neighbours dies (`>= 3`)
DecideCell_Crowded3(cs, key) ==
  LET an == alive_neighbours_around(cs, key)
      alive_neighbours == an.count
  IN  IF ~an.cells[key].alive /\ alive_neighbours = 3
      THEN next_state_is(an.cells, key, Some(1))
      ELSE IF alive_neighbours < 2 \/ alive_neighbours >= 3
           THEN [an.cells EXCEPT ![key].next_state = Some(0)]
           ELSE an.cells

\* variant: the birth test without its negation (`cell.alive && ...`)
DecideCell_NoBirth(cs, key) ==
  LET an == alive_neighbours_around(cs, key)
      alive_neighbours == an.count
  IN  IF an.cells[key].alive /\ alive_neighbours = 3
      THEN next_state_is(an.cells, key, Some(1))
      ELSE IF alive_neighbours < 2 \/ alive_neighbours > 3
           THEN [an.cells EXCEPT ![key].next_state = Some(0)]
           ELSE an.cells

\* variant: the first loop writes alive itself, in one pass
DecideCell_InPlace(cs, key) ==
  LET an == alive_neighbours_around(cs, key)
      alive_neighbours == an.count
  IN  IF ~an.cells[key].alive /\ alive_neighbours = 3
      THEN [an.cells EXCEPT ![key].next_state = Some(1), ![key].alive = TRUE]
      ELSE IF alive_neighbours < 2 \/ alive_neighbours > 3
           THEN [an.cells EXCEPT ![key].next_state = Some(0),
                                 ![key].alive = FALSE]
           ELSE an.cells

\* variant: no death by starvation (the `< 2` test left out)
DecideCell_NoStarve(cs, key) ==
  LET an == alive_neighbours_around(cs, key)
      alive_neighbours == an.count
  IN  IF ~an.cells[key].alive /\ alive_neighbours = 3
      THEN next_state_is(an.cells, key, Some(1))
      ELSE IF alive_neighbours > 3
           THEN [an.cells EXCEPT ![key].next_state = Some(0)]
           ELSE an.cells

RECURSIVE CountPending(_, _, _, _)
\* variant of the counting loop: a neighbour whose slot is filled counts by
\* the value in its slot
CountPending(cs, neighbours, i, n) ==
  IF i > Len(neighbours) THEN n
  ELSE LET c == cs[neighbours[i]]
           live == IF is_some(c.next_state) THEN c.next_state = Some(1)
                   ELSE c.alive
       IN  CountPending(cs, neighbours, i + 1, IF live THEN (n + 1) % U8 ELSE n)

\* variant: the count reads what the loop has already decided
DecideCell_SeesPending(cs, key) ==
  LET cs1 == neighbours_around(cs, key)
      alive_neighbours == CountPending(cs1, unwrap(cs1[key].neighbours), 1, 0)
  IN  IF ~cs1[key].alive /\ alive_neighbours = 3
      THEN next_state_is(cs1, key, Some(1))
      ELSE IF alive_neighbours < 2 \/ alive_neighbours > 3
           THEN [cs1 EXCEPT ![key].next_state = Some(0)]
           ELSE cs1

\* body of the first loop for one cell
DecideCell(cs, key) ==
  LET an == alive_neighbours_around(cs, key)
      alive_neighbours == an.count
  IN  IF ~an.cells[key].alive /\ alive_neighbours = 3
      THEN next_state_is(an.cells, key, Some(1))
      ELSE IF alive_neighbours < 2 \/ alive_neighbours > 3
           THEN [an.cells EXCEPT ![key].next_state = Some(0)]
           ELSE an.cells

\* variant: the pending value is taken out of the slot when it is applied
ApplyCell_Clearing(cs, key) ==
  IF cs[key].next_state = Some(1)
  THEN [cs EXCEPT ![key].alive = TRUE, ![key].next_state = None]
  ELSE IF cs[key].next_state = Some(0)
       THEN [cs EXCEPT ![key].alive = FALSE, ![key].next_state = None]
       ELSE cs

\* variant: the second loop only makes cells alive (the else-if left out)
ApplyCell_OnlyBirth(cs, key) ==
  IF cs[key].next_state = Some(1)
  THEN [cs EXCEPT ![key].alive = TRUE]
  ELSE cs

\* body of the second loop for one cell
ApplyCell(cs, key) ==
  IF cs[key].next_state = Some(1)
  THEN [cs EXCEPT ![key].alive = TRUE]
  ELSE IF cs[key].next_state = Some(0)
       THEN [cs EXCEPT ![key].alive = FALSE]
       ELSE cs

RECURSIVE DecideLoop(_, _, _)
DecideLoop(cs, order, i) ==
  IF i > Len(order) THEN cs
  ELSE LET cs1 == DecideCell(cs, order[i])
       IN  Done(cs1, DecideLoop(cs1, order, i + 1))

RECURSIVE ApplyLoop(_, _, _)
ApplyLoop(cs, order, i) ==
  IF i > Len(order) THEN cs
  ELSE LET cs1 == ApplyCell(cs, order[i])
       IN  Done(cs1, ApplyLoop(cs1, order, i + 1))

\* variant: the counter is not advanced
TickCount_Stuck(t) == t

\* self.tick += 1
TickCount(t) == U32Val(AddU32(U32Of(t), U32Of(1)))

----------------------------------------------------------------------------
(* World::render *)

RECURSIVE RenderFrom_Transposed(_, _, _, _, _)
\* variant: the cell looked up at (y, x)
RenderFrom_Transposed(cs, w, h, i, rendering) ==
  IF i >= w * h THEN [panic |-> FALSE, text |-> rendering]
  ELSE LET x == i % w
           y == i \div w
           cell == cell_at(cs, U32Of(y), U32Of(x))
       IN  IF is_none(cell) THEN [panic |-> TRUE, text |-> rendering]
           ELSE LET r1 == Append(rendering, to_char(cs[unwrap(cell)]))
                    r2 == IF x = w - 1 THEN Append(r1, "\n") ELSE r1
                IN  Done(r2, RenderFrom_Transposed(cs, w, h, i + 1, r2))

RECURSIVE RenderFrom(_, _, _, _, _)
\* the two nested loops of render, i counting the cells done; an unwrap of
\* None aborts
RenderFrom(cs, w, h, i, rendering) ==
  IF i >= w * h THEN [panic |-> FALSE, text |-> rendering]
  ELSE LET x == i % w
           y == i \div w
           cell == cell_at(cs, U32Of(x), U32Of(y))
       IN  IF is_none(cell) THEN [panic |-> TRUE, text |-> rendering]
           ELSE LET r1 == Append(rendering, to_char(cs[unwrap(cell)]))
                    r2 == IF x = w - 1 THEN Append(r1, "\n") ELSE r1
                IN  Done(r2, RenderFrom(cs, w, h, i + 1, r2))

render(cs, w, h) == RenderFrom(cs, w, h, 0, <<>>)

----------------------------------------------------------------------------
(* Initial states: the world World::new(w, h) returns *)

Coords(w, h) == (0..(w - 1)) \X (0..(h - 1))

\* the state in which World::new has returned world
Constructed(world) ==
  /\ width = world.width
  /\ height = world.height
  /\ tick = world.tick
  /\ cells = world.cells
  /\ call = "new"
  /\ result = <<>>
  /\ panicked = FALSE
  /\ pc = "ready"
  /\ todo = {}
  /\ pre = world.cells
  /\ iteration = 0

\* any size within the bounds, any outcome of the random draws
Init ==
  \E w \in 1..MaxSide, h \in 1..MaxSide :
    /\ w * h <= MaxCells
    /\ \E rnd \in [Coords(w, h) -> BOOLEAN] : Constructed(World_new(w, h, rnd))

----------------------------------------------------------------------------
(* Actions: a call of _tick and a call of render, each in one step *)

\* what a call of _tick does to the world
TickCall ==
  /\ pc = "ready" /\ ~panicked
  /\ tick < MaxTick
  /\ \E order \in IterOrders(cells) :
       cells' = ApplyLoop(DecideLoop(cells, order, 1), order, 1)
  /\ tick' = TickCount(tick)
  /\ pre' = cells
  /\ call' = "_tick"
  /\ result' = <<>>
  /\ UNCHANGED <<width, height, panicked, pc, todo>>

Tick == TickCall /\ UNCHANGED iteration

\* variant: render takes the pending values out of the slots
Render_Clearing ==
  /\ pc = "ready" /\ ~panicked
  /\ LET r == render(cells, width, height)
     IN  /\ panicked' = r.panic
         /\ result' = r.text
  /\ call' = "render"
  /\ cells' = [k \in DOMAIN cells |-> [cells[k] EXCEPT !.next_state = None]]
  /\ UNCHANGED <<width, height, tick, pc, todo, pre, iteration>>

Render ==
  /\ pc = "ready" /\ ~panicked
  /\ LET r == render(cells, width, height)
     IN  /\ panicked' = r.panic
         /\ result' = r.text
  /\ call' = "render"
  /\ UNCHANGED <<width, height, tick, cells, pc, todo, pre, iteration>>

Next == Tick \/ Render

Spec == Init /\ [][Next]_vars

----------------------------------------------------------------------------
(* Play::run: a render of the new world, then the loop of _tick and render *)

\* println!("{}", world.render()) before the loop
RunFirstRender == call = "new" /\ Render

\* variant: the loop is entered without the first render
RunTick_AfterNew ==
  /\ call \in {"new", "render"}
  /\ TickCall
  /\ iteration' = iteration + 1

\* an iteration begins: world._tick(), then avg_tick divides by world.tick
RunTick ==
  /\ call = "render"
  /\ TickCall
  /\ iteration' = iteration + 1

\* the iteration goes on: world.render(), then avg_render divides by
\* world.tick, then the output is printed and the loop repeats
RunRender == call = "_tick" /\ Render

NextPlay == RunFirstRender \/ RunTick \/ RunRender

SpecPlay == Init /\ [][NextPlay]_vars

----------------------------------------------------------------------------
(* World::new followed by a chosen outcome of the draws: a placed pattern  *)

\* the outcome of the draws that makes exactly the cells of S alive
Drawn(w, h, S) == [p \in Coords(w, h) |-> p \in S]

\* the 2x2 block whose lower corner is (bx, by)
Block(bx, by) == {<<bx, by>>, <<bx + 1, by>>, <<bx, by + 1>>, <<bx + 1, by + 1>>}

\* the lower corners of the blocks that leave a dead cell to every border
InnerBlocks(w, h) == (1..(w - 3)) \X (1..(h - 3))

InitBlock ==
  \E w \in 4..MaxPatternSide, h \in 4..MaxPatternSide :
    \E b \in InnerBlocks(w, h) :
      Constructed(World_new(w, h, Drawn(w, h, Block(b[1], b[2]))))

SpecBlock == InitBlock /\ [][Next]_vars

\* the segment of 3 through centre (cx, cy): horizontal for o = 0, vertical
\* for o = 1
Segment(o, cx, cy) ==
  IF o = 0 THEN {<<cx - 1, cy>>, <<cx, cy>>, <<cx + 1, cy>>}
  ELSE {<<cx, cy - 1>>, <<cx, cy>>, <<cx, cy + 1>>}

\* the centres around which both segments lie inside the grid
Centres(w, h) == (1..(w - 2)) \X (1..(h - 2))

InitBlinker ==
  \E w \in 3..MaxPatternSide, h \in 3..MaxPatternSide :
    \E c \in Centres(w, h) :
      Constructed(World_new(w, h, Drawn(w, h, Segment(0, c[1], c[2]))))

SpecBlinker == InitBlinker /\ [][Next]_vars

\* one live cell anywhere in a grid otherwise dead
InitSingle ==
  \E w \in 1..MaxPatternSide, h \in 1..MaxPatternSide :
    \E p \in Coords(w, h) :
      Constructed(World_new(w, h, Drawn(w, h, {p})))

SpecSingle == InitSingle /\ [][Next]_vars

----------------------------------------------------------------------------
(* _tick cell by cell: each iteration of its two loops is one step, and    *)
(* the loops visit the map in any order.  render is called only between    *)
(* calls of _tick: the program is single-threaded.                         *)

InitSteps ==
  \E w \in 1..MaxSide, h \in 1..MaxSide :
    /\ w * h <= MaxStepCells
    /\ \E rnd \in [Coords(w, h) -> BOOLEAN] : Constructed(World_new(w, h, rnd))

TickBegin ==
  /\ pc = "ready" /\ ~panicked
  /\ tick < MaxTick
  /\ pc' = "decide"
  /\ todo' = DOMAIN cells
  /\ pre' = cells
  /\ UNCHANGED <<width, height, tick, cells, call, result, panicked, iteration>>

DecideStep ==
  /\ pc = "decide"
  /\ \E key \in todo :
       /\ cells' = DecideCell(cells, key)
       /\ todo' = todo \ {key}
  /\ UNCHANGED <<width, height, tick, call, result, panicked, pc, pre,
               iteration>>

DecideDone ==
  /\ pc = "decide" /\ todo = {}
  /\ pc' = "apply"
  /\ todo' = DOMAIN cells
  /\ UNCHANGED <<width, height, tick, cells, call, result, panicked, pre,
               iteration>>

ApplyStep ==
  /\ pc = "apply"
  /\ \E key \in todo :
       /\ cells' = ApplyCell(cells, key)
       /\ todo' = todo \ {key}
  /\ UNCHANGED <<width, height, tick, call, result, panicked, pc, pre,
               iteration>>

TickEnd ==
  /\ pc = "apply" /\ todo = {}
  /\ tick' = TickCount(tick)
  /\ pc' = "ready"
  /\ call' = "_tick"
  /\ result' = <<>>
  /\ UNCHANGED <<width, height, cells, panicked, todo, pre, iteration>>

NextSteps ==
  TickBegin \/ DecideStep \/ DecideDone \/ ApplyStep \/ TickEnd \/ Render

SpecSteps == InitSteps /\ [][NextSteps]_vars

----------------------------------------------------------------------------
(* Reference definitions for the properties: the grid as coordinates, with *)
(* no use of keys, of the neighbour cache or of u32 arithmetic             *)

Offsets == {d \in (-1..1) \X (-1..1) : d # <<0, 0>>}

\* the coordinates around (x, y) that lie inside a w x h grid
Around(x, y, w, h) ==
  {p \in Coords(w, h) : <<p[1] - x, p[2] - y>> \in Offsets}

\* keys of the cells of cs that are stored with coordinate p
KeysAt(cs, p) == {k \in DOMAIN cs : <<cs[k].x, cs[k].y>> = p}

\* number of alive cells of cs around (x, y)
LiveAround(cs, x, y, w, h) ==
  Cardinality({p \in Around(x, y, w, h) :
                 \E k \in KeysAt(cs, p) : cs[k].alive})

\* Conway's rule
LifeRule(alive, n) ==
  IF ~alive /\ n = 3 THEN TRUE
  ELSE IF alive /\ (n < 2 \/ n > 3) THEN FALSE
  ELSE alive

LiveBefore(k) == LiveAround(pre, pre[k].x, pre[k].y, width, height)

AliveSet(cs) == {<<cs[k].x, cs[k].y>> : k \in {j \in DOMAIN cs : cs[j].alive}}

AllDead(cs) == \A k \in DOMAIN cs : ~cs[k].alive

\* a _tick has returned and nothing but render was called since
Ticked == tick > 0 /\ pc = "ready"

----------------------------------------------------------------------------
(* C1: after _tick every cell is alive exactly if Conway's rule, applied   *)
(* to the cell's alive flag and its number of alive non-wrapping           *)
(* neighbours in the grid the _tick started from, says so: a dead cell     *)
(* with exactly 3 becomes alive, a live cell with fewer than 2 or more     *)
(* than 3 dies, every other cell keeps its alive flag.                     *)
C1_TickIsLifeRule ==
  Ticked =>
    /\ DOMAIN cells = DOMAIN pre
    /\ \A k \in DOMAIN cells :
         cells[k].alive = LifeRule(pre[k].alive, LiveBefore(k))

\* a later tick in which a birth, both kinds of death and a survival happen
C1_Witness ==
  /\ Ticked /\ tick >= 2
  /\ \E k \in DOMAIN cells : ~pre[k].alive /\ LiveBefore(k) = 3 /\ cells[k].alive
  /\ \E k \in DOMAIN cells : pre[k].alive /\ LiveBefore(k) < 2 /\ ~cells[k].alive
  /\ \E k \in DOMAIN cells : pre[k].alive /\ LiveBefore(k) > 3 /\ ~cells[k].alive
  /\ \E k \in DOMAIN cells : pre[k].alive /\ LiveBefore(k) \in {2, 3} /\ cells[k].alive
  /\ \E k \in DOMAIN cells : ~pre[k].alive /\ LiveBefore(k) # 3 /\ ~cells[k].alive
  /\ \E k \in DOMAIN cells : pre[k].next_state # None

----------------------------------------------------------------------------
(* C3 as stated: after _tick returns the pending slot of every cell is     *)
(* None.                                                                   *)
C3_PendingCleared ==
  Ticked => \A k \in DOMAIN cells : cells[k].next_state = None

\* what the first loop of the last _tick decided for cell k: Some(1),
\* Some(0), or the value the slot already held when no rule matched
DecidedBefore(k) ==
  IF ~pre[k].alive /\ LiveBefore(k) = 3 THEN Some(1)
  ELSE IF LiveBefore(k) < 2 \/ LiveBefore(k) > 3 THEN Some(0)
  ELSE pre[k].next_state

(* C3 amended: _tick never clears a pending slot.  After _tick returns the *)
(* slot of a cell a rule matched holds the decided value, and the slot of  *)
(* every other cell holds what it held when the _tick was entered; so a    *)
(* value written in one tick is still there at the start of the next.      *)
C3_PendingKept ==
  Ticked => \A k \in DOMAIN cells : cells[k].next_state = DecidedBefore(k)

\* a tick in which no rule matched a cell whose slot an earlier tick filled
C3_Witness ==
  /\ Ticked /\ tick >= 2
  /\ \E k \in DOMAIN cells :
       /\ pre[k].next_state # None
       /\ LiveBefore(k) \in {2, 3}
       /\ (pre[k].alive \/ LiveBefore(k) = 2)
       /\ cells[k].next_state = pre[k].next_state

----------------------------------------------------------------------------
(* C4: for every cell the list neighbours_around computes holds exactly    *)
(* the cells at the 8 offsets that stay inside the grid, each once; so a   *)
(* corner cell has at most 3, an edge cell at most 5, any cell at most 8.  *)
FreshNeighbours(k) == NeighbourScan(cells, cells[k], 1, <<>>)

OnEdge(c) == c.x = 0 \/ c.y = 0 \/ c.x = width - 1 \/ c.y = height - 1

InCorner(c) == c.x \in {0, width - 1} /\ c.y \in {0, height - 1}

C4_NeighboursInBounds ==
  \A k \in DOMAIN cells :
    LET ns == FreshNeighbours(k)
        c == cells[k]
    IN  /\ \A i \in 1..Len(ns) : ns[i] \in DOMAIN cells
        /\ {<<cells[ns[i]].x, cells[ns[i]].y>> : i \in 1..Len(ns)}
             = Around(c.x, c.y, width, height)
        /\ Len(ns) = Cardinality(Around(c.x, c.y, width, height))
        /\ Len(ns) <= 8
        /\ OnEdge(c) => Len(ns) <= 5
        /\ InCorner(c) => Len(ns) <= 3

\* a grid with an inner cell of 8, an edge cell of 5 and a corner cell of 3
C4_Witness ==
  /\ Ticked
  /\ \E k \in DOMAIN cells : Len(FreshNeighbours(k)) = 8
  /\ \E k \in DOMAIN cells :
       OnEdge(cells[k]) /\ ~InCorner(cells[k]) /\ Len(FreshNeighbours(k)) = 5
  /\ \E k \in DOMAIN cells : InCorner(cells[k]) /\ Len(FreshNeighbours(k)) = 3

----------------------------------------------------------------------------
----------------------------------------------------------------------------
(* C6: render returns height lines of width characters, each followed by   *)
(* "\n"; the character at column x of line y is "o" if the cell at (x, y)  *)
(* is alive and " " if it is dead.                                         *)
CharAt(x, y) ==
  IF \E k \in KeysAt(cells, <<x, y>>) : cells[k].alive THEN "o" ELSE " "

WellRendered(text) ==
  /\ Len(text) = height * (width + 1)
  /\ \A y \in 0..(height - 1) :
       /\ \A x \in 0..(width - 1) : text[y * (width + 1) + x + 1] = CharAt(x, y)
       /\ text[y * (width + 1) + width + 1] = "\n"

C6_RenderShape ==
  /\ LET r == render(cells, width, height)
     IN  ~r.panic /\ WellRendered(r.text)
  /\ call = "render" => ~panicked /\ WellRendered(result)

\* a rendering, after a tick, of a grid of several rows and columns that
\* has both kinds of cell
C6_Witness ==
  /\ call = "render" /\ tick >= 1
  /\ width >= 2 /\ height >= 2 /\ width # height
  /\ \E i, j \in 1..Len(result) : result[i] = "o" /\ result[j] = " "

----------------------------------------------------------------------------
(* C7: the map holds exactly one cell for every coordinate of the grid and *)
(* none for any other, stored under the key of its coordinate; distinct    *)
(* coordinates have distinct keys; the unwrap in render never fails.       *)

\* the keys of the world the driver builds
PlayKeys ==
  {Key(U32Of(p[1]), U32Of(p[2])) : p \in Coords(World_Width, World_Height)}

C7_OneCellPerCoordinate ==
  /\ \A p \in Coords(width, height) : Cardinality(KeysAt(cells, p)) = 1
  /\ \A k \in DOMAIN cells :
       /\ <<cells[k].x, cells[k].y>> \in Coords(width, height)
       /\ k = Key(U32Of(cells[k].x), U32Of(cells[k].y))
       /\ cells[k].x = pre[k].x /\ cells[k].y = pre[k].y
  /\ DOMAIN cells = DOMAIN pre
  /\ Cardinality(DOMAIN cells) = width * height
  /\ Cardinality(PlayKeys) = World_Width * World_Height
  /\ \A p \in Coords(width, height) :
       is_some(cell_at(cells, U32Of(p[1]), U32Of(p[2])))
  /\ ~panicked

\* a grid of the largest size after ticks and a render
C7_Witness ==
  /\ call = "render" /\ tick = MaxTick
  /\ width * height = MaxCells

----------------------------------------------------------------------------
(* C10: a _tick entered with every cell dead returns with every cell dead, *)
(* whatever the pending slots held.                                        *)
C10_DeadStaysDead == Ticked /\ AllDead(pre) => AllDead(cells)

\* a dead grid, with slots filled and slots empty, ticked again
C10_Witness ==
  /\ Ticked /\ tick >= 2
  /\ AllDead(pre) /\ AllDead(cells)
  /\ \E k \in DOMAIN pre : pre[k].next_state = Some(0)
  /\ \E k \in DOMAIN pre : pre[k].next_state = None

----------------------------------------------------------------------------
(* C2: while the first loop of _tick runs no alive flag differs from the   *)
(* grid the _tick started from, so every count it takes is a count of that *)
(* grid; the second loop starts with every cell decided and is the only    *)
(* writer of alive; render, called between ticks only, returns a grid in   *)
(* which either no cell or every cell has advanced.                        *)
Advanced(k) == cells[k].alive = LifeRule(pre[k].alive, LiveBefore(k))

C2_DecideLeavesAlive ==
  /\ pc = "decide" =>
       \A k \in DOMAIN cells :
         /\ cells[k].alive = pre[k].alive
         /\ alive_neighbours_around(cells, k).count = LiveBefore(k)
         /\ k \notin todo => cells[k].next_state = DecidedBefore(k)
  /\ pc = "apply" =>
       \A k \in DOMAIN cells :
         /\ cells[k].next_state = DecidedBefore(k)
         /\ k \in todo => cells[k].alive = pre[k].alive
         /\ k \notin todo => Advanced(k)
  /\ Ticked => \A k \in DOMAIN cells : Advanced(k)
  /\ call = "render" /\ pc = "ready" => WellRendered(result)

\* in the middle of the first loop, with a birth and a death of visited
\* cells recorded and not yet applied
C2_Witness ==
  /\ pc = "decide"
  /\ todo # {} /\ todo # DOMAIN cells
  /\ \E k \in (DOMAIN cells) \ todo :
       /\ cells[k].next_state = Some(1) /\ ~cells[k].alive
  /\ \E k \in (DOMAIN cells) \ todo :
       /\ cells[k].next_state = Some(0) /\ cells[k].alive

----------------------------------------------------------------------------
(* C8: a 2x2 block of live cells with a dead cell between it and every     *)
(* border, in a grid otherwise dead, is the set of live cells after every  *)
(* _tick.                                                                  *)
C8_BlockIsStill ==
  /\ \E b \in InnerBlocks(width, height) : AliveSet(cells) = Block(b[1], b[2])
  /\ AliveSet(cells) = AliveSet(pre)

\* the block after the last explored tick
C8_Witness ==
  /\ Ticked /\ tick = MaxTick /\ call = "_tick"
  /\ \E b \in InnerBlocks(width, height) : AliveSet(pre) = Block(b[1], b[2])

----------------------------------------------------------------------------
(* C9: a horizontal segment of 3 live cells in a grid otherwise dead is    *)
(* the vertical segment through the same centre after every odd number of  *)
(* ticks and the horizontal segment again after every even number.         *)
C9_BlinkerAlternates ==
  \E c \in Centres(width, height) :
    /\ AliveSet(cells) = Segment(tick % 2, c[1], c[2])
    /\ Ticked => AliveSet(pre) = Segment((tick + 1) % 2, c[1], c[2])

\* the horizontal segment back after two ticks, one cell away from borders
C9_Witness ==
  /\ Ticked /\ tick = 2 /\ call = "_tick"
  /\ \E c \in Centres(width, height) :
       /\ c[1] >= 2 /\ c[1] <= width - 3 /\ c[2] >= 2 /\ c[2] <= height - 3
       /\ AliveSet(cells) = Segment(0, c[1], c[2])
       /\ AliveSet(pre) = Segment(1, c[1], c[2])

----------------------------------------------------------------------------
(* C11: a grid whose only live cell has no live neighbour is fully dead    *)
(* after one _tick and after every later _tick.                            *)
C11_LoneCellDies ==
  /\ tick = 0 => Cardinality(AliveSet(cells)) = 1
  /\ tick >= 1 => AllDead(cells)
  /\ tick = 1 => Cardinality(AliveSet(pre)) = 1
  /\ tick >= 2 => AllDead(pre)

\* the dead grid after the lone cell, inside a grid with room, has died and
\* a further tick has run
C11_Witness ==
  /\ Ticked /\ tick = 2 /\ call = "_tick"
  /\ width >= 3 /\ height >= 3
  /\ AllDead(cells) /\ AllDead(pre)
  /\ \E k \in DOMAIN cells :
       /\ cells[k].x \in 1..(width - 2) /\ cells[k].y \in 1..(height - 2)
       /\ LiveAround(cells, cells[k].x, cells[k].y, width, height) = 0
       /\ cells[k].next_state = Some(0)

----------------------------------------------------------------------------
(* C12: render changes no alive flag, no pending slot, no neighbour cache  *)
(* and not the tick counter; the string it returned is the string a        *)
(* further render, with no _tick in between, returns.                      *)
C12_RenderIsPure ==
  /\ [](call = "render" /\ pc = "ready" =>
         result = render(cells, width, height).text)
  /\ [][call' = "render" /\ pc = "ready" =>
         /\ cells' = cells
         /\ tick' = tick
         /\ width' = width /\ height' = height]_vars

\* a render of a ticked grid with live cells, filled slots and caches
C12_Witness ==
  /\ call = "render" /\ tick >= 1 /\ ~panicked
  /\ \E k \in DOMAIN cells : cells[k].alive /\ cells[k].next_state = Some(1)
  /\ \E k \in DOMAIN cells : ~cells[k].alive /\ cells[k].next_state = Some(0)
  /\ \E k \in DOMAIN cells : Len(unwrap(cells[k].neighbours)) = 8

----------------------------------------------------------------------------
(* C13: from the return of World::new on, the neighbour cache of every     *)
(* cell is set, is the list neighbours_around would compute afresh from    *)
(* the cell's coordinates, and is the same before and after every _tick.   *)
C13_CacheSetAndFixed ==
  \A k \in DOMAIN cells :
    /\ is_some(cells[k].neighbours)
    /\ unwrap(cells[k].neighbours) = FreshNeighbours(k)
    /\ k \in DOMAIN pre /\ cells[k].neighbours = pre[k].neighbours

\* the caches of a 3x3 grid after the last explored tick and a render
C13_Witness ==
  /\ tick = MaxTick /\ call = "render" /\ ~panicked
  /\ \E k \in DOMAIN cells : Len(unwrap(cells[k].neighbours)) = 8
  /\ \E k \in DOMAIN cells : Len(unwrap(cells[k].neighbours)) = 3
  /\ AliveSet(cells) # AliveSet(pre)

----------------------------------------------------------------------------
(* C14: whenever _tick has returned, a cell whose slot holds Some(1) is    *)
(* alive and a cell whose slot holds Some(0) is dead; so in a tick in      *)
(* which no rule matched a cell, applying the value an earlier tick left   *)
(* in its slot did not change its alive flag.                              *)
NoRuleBefore(k) ==
  /\ ~(~pre[k].alive /\ LiveBefore(k) = 3)
  /\ ~(LiveBefore(k) < 2 \/ LiveBefore(k) > 3)

C14_PendingAgreesWithAlive ==
  pc = "ready" =>
    \A k \in DOMAIN cells :
      /\ cells[k].next_state \in {None, Some(0), Some(1)}
      /\ cells[k].next_state = Some(1) => cells[k].alive
      /\ cells[k].next_state = Some(0) => ~cells[k].alive
      /\ Ticked /\ NoRuleBefore(k) /\ pre[k].next_state # None =>
           cells[k].alive = pre[k].alive

\* a tick that matched no rule for a live cell holding Some(1) and for a
\* dead cell holding Some(0)
C14_Witness ==
  /\ Ticked /\ tick >= 2
  /\ \E k \in DOMAIN cells :
       /\ NoRuleBefore(k) /\ pre[k].next_state = Some(1) /\ cells[k].alive
  /\ \E k \in DOMAIN cells :
       /\ NoRuleBefore(k) /\ pre[k].next_state = Some(0) /\ ~cells[k].alive

----------------------------------------------------------------------------
(* C15: whatever the orders in which the two loops of _tick visit the map, *)
(* the grid after the _tick is the grid the _tick yields when both loops   *)
(* go by row and column, and the counter is one more than before: two      *)
(* worlds equal before a _tick are equal after it.                         *)
RowMajorTick(cs) ==
  LET order == RowMajor(cs, DOMAIN cs)
  IN  ApplyLoop(DecideLoop(cs, order, 1), order, 1)

C15_OrderIndependent ==
  /\ [](Ticked => cells = RowMajorTick(pre))
  /\ [][pc = "apply" /\ pc' = "ready" => tick' = tick + 1 /\ cells' = cells]_vars

\* the second loop of a later tick, having changed a cell that comes after
\* a cell it has not visited yet
C15_Witness ==
  /\ pc = "apply" /\ tick >= 1
  /\ \E j \in (DOMAIN cells) \ todo :
       /\ cells[j].alive # pre[j].alive
       /\ \E k \in todo : Before(cells[k], cells[j])

----------------------------------------------------------------------------
====
